---- MODULE Spec2Model ----
(***************************************************************************)
(* Call-center staffing library (python/erlang.py, python/staffing.py).    *)
(*                                                                         *)
(* The library is a set of pure functions over Python numbers.  A number   *)
(* is modelled as an exact rational <<n, d>> in lowest terms with d > 0;   *)
(* Python's None is the pair <<0, 0>>.  An outcome of a call is a record   *)
(* [status, val]: status "ok" with the returned value, or the name of the  *)
(* Python exception the call raises.                                       *)
(*                                                                         *)
(* The state machine is one caller: it is idle, invokes one function of    *)
(* the library with inputs drawn from bounded sets, holds the outcome, and *)
(* takes it back to idle.  __find_min_max_agents runs its for loop one     *)
(* iteration per step.                                                     *)
(***************************************************************************)
EXTENDS Integers, Sequences, FiniteSets, TLC

VARIABLES fn, arg, ret, i, evaluated

vars == <<fn, arg, ret, i, evaluated>>

(***************************************************************************)
(* Bounds of the model.                                                    *)
(***************************************************************************)
\* largest numerator of a traffic intensity passed directly to a function
MaxTNum == 5
\* largest denominator of a traffic intensity, occupancy target or shrinkage
MaxDen == 2
\* largest agent count passed directly to a function
MaxAgents == 4
\* exclusive upper end of the exponent range of the doubling search; the
\* code's range ends at 65 (staffing.py:271), the model scales it down
MaxExponent == 3
\* largest traffic intensity the search is started with
MaxSearchT == 3

(***************************************************************************)
(* Python numbers as exact rationals.                                      *)
(***************************************************************************)
Abs(n) == IF n < 0 THEN -n ELSE n

RECURSIVE GCD(_, _)
GCD(a, b) == IF b = 0 THEN a ELSE GCD(b, a % b)

\* lowest terms, positive denominator
Norm(n, d) ==
    LET g == GCD(Abs(n), Abs(d))
        s == IF d < 0 THEN -1 ELSE 1
    IN  <<s * (n \div g), s * (d \div g)>>

R(n) == <<n, 1>>
None == <<0, 0>>
IsNone(x) == x[2] = 0
IsInt(x) == x[2] = 1

\* sums and comparisons go through the least common denominator
RAdd(x, y) ==
    LET g == GCD(x[2], y[2])
    IN  Norm(x[1] * (y[2] \div g) + y[1] * (x[2] \div g), (x[2] \div g) * y[2])
RSub(x, y) == RAdd(x, <<-y[1], y[2]>>)
RMul(x, y) ==
    LET a == Norm(x[1], y[2])
        b == Norm(y[1], x[2])
    IN  Norm(a[1] * b[1], a[2] * b[2])
\* the divisor is non-zero: every caller tests it and raises otherwise
RDiv(x, y) == RMul(x, Norm(y[2], y[1]))
RLe(x, y) == LET g == GCD(x[2], y[2])
             IN  x[1] * (y[2] \div g) <= y[1] * (x[2] \div g)
RLt(x, y) == LET g == GCD(x[2], y[2])
             IN  x[1] * (y[2] \div g) < y[1] * (x[2] \div g)
RAbs(x) == <<Abs(x[1]), x[2]>>
RNeg(x) == <<-x[1], x[2]>>
\* math.ceil
Ceil(x) == IF x[1] % x[2] = 0 THEN x[1] \div x[2] ELSE (x[1] \div x[2]) + 1

\* An outcome: a returned value of a kind ("number", "pair", "data", "none"),
\* or a raised exception.
Ok(k, v) == [status |-> "ok", kind |-> k, val |-> v]
Raise(e) == [status |-> e, kind |-> "none", val |-> None]
Running == [status |-> "running", kind |-> "none", val |-> None]
Idle == [status |-> "idle", kind |-> "none", val |-> None]

(***************************************************************************)
(* erlang.py                                                               *)
(***************************************************************************)
\* a slip in the factor: (agents - i - 1) / t_intensity
WaitFactorOffByOne(t, agents, k) == RDiv(RSub(agents, R(k + 1)), t)

\* the factor of iteration k of the loop: (agents - i) / t_intensity
WaitFactor(t, agents, k) == RDiv(RSub(agents, R(k)), t)

\* for i in range(0, agents): product = product * factor; result += product
RECURSIVE WaitLoop(_, _, _, _, _)
WaitLoop(t, agents, k, product, result) ==
    IF k >= agents[1]
    THEN result
    ELSE LET p == RMul(product, WaitFactor(t, agents, k))
         IN  WaitLoop(t, agents, k + 1, p, RAdd(result, p))

\* a slip in the last step: the sum is scaled by agents / (agents - t_intensity)
WaitFinalInverted(t, agents, result) ==
    LET r == RDiv(R(1), RAdd(RDiv(RMul(result, agents), RSub(agents, t)), R(1)))
    IN  IF RLe(r, R(1)) THEN r ELSE R(1)

\* result = 1 / (result * (agents - t_intensity) / agents + 1), at most 1
WaitFinal(t, agents, result) ==
    LET r == RDiv(R(1), RAdd(RDiv(RMul(result, RSub(agents, t)), agents), R(1)))
    IN  IF RLe(r, R(1)) THEN r ELSE R(1)

\* the saturated regime, which returns 1 before the loop
Saturated(t, agents) == RLe(agents, t)

calc_wait_probability(t, agents) ==
    IF Saturated(t, agents) THEN Ok("number", R(1))
    ELSE IF ~IsInt(agents) THEN Raise("TypeError")
    ELSE IF t[1] = 0 THEN Raise("ZeroDivisionError")
    ELSE Ok("number", WaitFinal(t, agents, WaitLoop(t, agents, 0, R(1), R(0))))

(***************************************************************************)
(* staffing.py: the formulas                                               *)
(***************************************************************************)
SEC == 3600
MIN == 60
HOUR == 1
TimeUnit == {SEC, MIN, HOUR}

calc_traffic_intensity(calls_per_hour, aht, aht_unit) ==
    RMul(calls_per_hour, RDiv(aht, R(aht_unit)))

calc_immediate_answer(wait_probability) == RSub(R(1), wait_probability)

\* pow(math.e, expon) for expon <= 0.  e^expon is irrational for every
\* rational expon # 0; the model takes the rational 1 / (1 + x + x^2/2),
\* x = -expon, which like e^expon is 1 at 0, positive and strictly
\* decreasing in x.
PowE(expon) ==
    LET x == RNeg(expon)
    IN  RDiv(R(1), RAdd(RAdd(R(1), x), RDiv(RMul(x, x), R(2))))

calc_service_level(t, agents, wait_probability, target_answer_time, aht) ==
    IF RLe(agents, t) THEN R(0)
    ELSE LET expon == RNeg(RAbs(RDiv(RMul(RSub(agents, t), target_answer_time), aht)))
         IN  RSub(R(1), RAbs(RMul(wait_probability, PowE(expon))))

\* agents is not 0 at any call
calc_occupancy(t, agents) ==
    LET occ == RDiv(t, agents)
    IN  IF RLe(occ, R(1)) THEN occ ELSE R(1)

\* a slip in the rounding: the quotient rounded down
OccupancyAgentsFloor(t, occupancy_target) ==
    RDiv(t, occupancy_target)[1] \div RDiv(t, occupancy_target)[2]

\* math.ceil(t_intensity / occupancy_target)
OccupancyAgents(t, occupancy_target) == Ceil(RDiv(t, occupancy_target))

optimise_occupancy(t, agents, occupancy_target) ==
    LET occ == calc_occupancy(t, R(agents))
    IN  IF RLe(occ, occupancy_target)
        THEN <<agents, occ>>
        ELSE LET optimised_occ_agents == OccupancyAgents(t, occupancy_target)
             IN  <<optimised_occ_agents, calc_occupancy(t, R(optimised_occ_agents))>>

calc_average_speed_of_answer(t, agents, wait_probability, aht) ==
    IF RSub(agents, t)[1] = 0 THEN Raise("ZeroDivisionError")
    ELSE Ok("number", RDiv(RMul(wait_probability, aht), RSub(agents, t)))

add_shrinkage(agents, shrinkage) ==
    IF IsNone(shrinkage) THEN Raise("TypeError")
    ELSE IF RSub(R(1), shrinkage)[1] = 0 THEN Raise("ZeroDivisionError")
    ELSE Ok("number", R(Ceil(RDiv(R(agents), RSub(R(1), shrinkage)))))

(***************************************************************************)
(* staffing.py: the solver                                                 *)
(***************************************************************************)
StaffingData(t, wp, ia, sl, asa, occ, agents, aws) ==
    [traffic_intensity |-> t, wait_probability |-> wp, immediate_answer |-> ia,
     service_level |-> sl, average_speed_of_answer |-> asa, occupancy |-> occ,
     agents |-> agents, agents_with_shrinkage |-> aws]

\* __calc_all: the calls in the order of the code; the first exception raised
\* is the outcome
calc_all(agents, calls_per_hour, aht, target_answer_time, shrinkage, time_unit) ==
    LET t == calc_traffic_intensity(calls_per_hour, aht, time_unit)
        wp == calc_wait_probability(t, R(agents))
        asa == calc_average_speed_of_answer(t, R(agents), wp.val, aht)
        sl == calc_service_level(t, R(agents), wp.val, target_answer_time, aht)
        occ == calc_occupancy(t, R(agents))
        aws == add_shrinkage(agents, shrinkage)
    IN  IF wp.status # "ok" THEN Raise(wp.status)
        ELSE IF asa.status # "ok" THEN Raise(asa.status)
        ELSE IF aws.status # "ok" THEN Raise(aws.status)
        ELSE Ok("data", StaffingData(t, wp.val, calc_immediate_answer(wp.val), sl,
                                     asa.val, occ, agents, aws.val[1]))

\* calc_staffing: the body is "pass"; every call returns None
calc_staffing(calls_per_hour, aht, agents, target_occupancy, target_answer_time, target_service_level, shrinkage, time_unit) ==
    Ok("none", None)

\* int(math.log(t, 2)) for t > 0: the logarithm truncated towards zero
RECURSIVE FloorLog2(_)
FloorLog2(x) == IF RLt(x, R(2)) THEN 0 ELSE 1 + FloorLog2(RDiv(x, R(2)))

IntLog2(t) == IF RLe(R(1), t) THEN FloorLog2(t) ELSE -FloorLog2(RDiv(R(1), t))

\* 2 ** i: an int for i >= 0, a float below 1 for i < 0
RECURSIVE Pow2(_)
Pow2(e) == IF e = 0 THEN R(1)
           ELSE IF e > 0 THEN RMul(R(2), Pow2(e - 1))
           ELSE RDiv(Pow2(e + 1), R(2))

\* the first exponent of the search; math.log raises ValueError for t = 0
FirstExponent(t) == IF t[1] = 0 THEN Raise("ValueError") ELSE Ok("number", R(IntLog2(t)))

\* the end of range(int(math.log(t_intensity, 2)), 65), scaled to the model
LastExponent == MaxExponent

\* the lower end of the bracket returned at exponent e
LowerBound(e) == IF e > 0 THEN Pow2(e - 1) ELSE R(0)

\* a slip in the test: a service level equal to the target ends the search
MeetsTargetInclusive(service_level, target_service_level) ==
    RLe(target_service_level, service_level)

\* the test that ends the search at an agent count
MeetsTarget(service_level, target_service_level) ==
    RLt(target_service_level, service_level)

\* what the search returns when the loop ends without a return
Exhausted == Ok("pair", <<R(0), R(0)>>)

(***************************************************************************)
(* The inputs the caller draws from.                                       *)
(***************************************************************************)
\* traffic intensities passed directly: 0, 1/2, 1, 3/2, ...
TVals == {Norm(n, d) : n \in 0..MaxTNum, d \in 1..MaxDen}
\* fractions of [0, 1]
FracVals == {f \in {Norm(n, d) : n \in 0..(MaxDen + 2), d \in 1..(MaxDen + 2)} :
                RLe(f, R(1))}
\* occupancy targets: (0, 1]
OccupancyVals == {c \in FracVals : c[1] > 0}
\* shrinkage fractions: [0, 1), 1 and values above 1
ShrinkageVals == FracVals \cup {<<3, 2>>, R(2)}
CallsVals == {R(0), R(1), R(2), R(3), R(20), R(30), R(60), R(90), R(1800), R(3600)}
AhtVals == {Norm(n, d) : n \in 1..2, d \in 1..MaxDen}
AnswerTimeVals == {R(0), R(1)}
\* target service levels: inside (0, 1), and exactly 1
ServiceLevelVals == {<<1, 2>>, <<4, 5>>, R(1)}
\* calls per hour, handling time and its unit, of a traffic intensity that is
\* at most MaxSearchT and a multiple of 1/2, or a multiple of 1/3 below 1
Workloads == {w \in CallsVals \X AhtVals \X TimeUnit :
                 LET t == calc_traffic_intensity(w[1], w[2], w[3])
                 IN  /\ RLe(t, R(MaxSearchT))
                     /\ (t[2] <= 2 \/ (t[2] = 3 /\ RLt(t, R(1))))}

(***************************************************************************)
(* The caller.                                                             *)
(***************************************************************************)
Init ==
    /\ fn = "idle"
    /\ arg = [calls_per_hour |-> None]
    /\ ret = Idle
    /\ i = 0
    /\ evaluated = <<>>

CallWaitProbability ==
    /\ fn = "idle"
    /\ \E t \in TVals, a \in 0..MaxAgents :
         /\ fn' = "calc_wait_probability"
         /\ arg' = [t_intensity |-> t, agents |-> a]
         /\ ret' = calc_wait_probability(t, R(a))
    /\ UNCHANGED <<i, evaluated>>

CallOptimiseOccupancy ==
    /\ fn = "idle"
    /\ \E t \in TVals, a \in 1..MaxAgents, c \in OccupancyVals :
         /\ fn' = "optimise_occupancy"
         /\ arg' = [t_intensity |-> t, agents |-> a, occupancy_target |-> c]
         /\ ret' = Ok("pair", optimise_occupancy(t, a, c))
    /\ UNCHANGED <<i, evaluated>>

CallAddShrinkage ==
    /\ fn = "idle"
    /\ \E a \in 1..MaxAgents, s \in ShrinkageVals :
         /\ fn' = "add_shrinkage"
         /\ arg' = [agents |-> a, shrinkage |-> s]
         /\ ret' = add_shrinkage(a, s)
    /\ UNCHANGED <<i, evaluated>>

CallCalcAll ==
    /\ fn = "idle"
    /\ \E a \in 1..MaxAgents, w \in Workloads, tat \in AnswerTimeVals,
          s \in {None, R(0), <<1, 2>>} :
         /\ fn' = "__calc_all"
         /\ arg' = [agents |-> a, calls_per_hour |-> w[1], aht |-> w[2],
                    time_unit |-> w[3], target_answer_time |-> tat, shrinkage |-> s]
         /\ ret' = calc_all(a, w[1], w[2], tat, s, w[3])
    /\ UNCHANGED <<i, evaluated>>

CallCalcStaffing ==
    /\ fn = "idle"
    /\ \E w \in Workloads, a \in {None} \cup {R(n) : n \in 1..MaxAgents},
          occ \in {None, <<1, 2>>}, tat \in AnswerTimeVals,
          tsl \in ServiceLevelVals, s \in {None, <<1, 2>>} :
         /\ fn' = "calc_staffing"
         /\ arg' = [calls_per_hour |-> w[1], aht |-> w[2], time_unit |-> w[3],
                    agents |-> a, target_occupancy |-> occ,
                    target_answer_time |-> tat, target_service_level |-> tsl,
                    shrinkage |-> s]
         /\ ret' = calc_staffing(w[1], w[2], a, occ, tat, tsl, s, w[3])
    /\ UNCHANGED <<i, evaluated>>

\* __find_min_max_agents up to the for statement
FindStart ==
    /\ fn = "idle"
    /\ \E w \in Workloads, tat \in AnswerTimeVals, tsl \in ServiceLevelVals :
         LET t == calc_traffic_intensity(w[1], w[2], w[3])
             first == FirstExponent(t)
         IN  /\ fn' = "__find_min_max_agents"
             /\ arg' = [calls_per_hour |-> w[1], aht |-> w[2], time_unit |-> w[3],
                        target_answer_time |-> tat, target_service_level |-> tsl,
                        t_intensity |-> t]
             /\ IF first.status # "ok"
                THEN ret' = Raise(first.status) /\ i' = 0
                ELSE ret' = Running /\ i' = first.val[1]
             /\ evaluated' = <<>>

\* one iteration of the for loop
FindStep ==
    /\ fn = "__find_min_max_agents"
    /\ ret.status = "running"
    /\ i < LastExponent
    /\ LET agents == Pow2(i)
           wp == calc_wait_probability(arg.t_intensity, agents)
           sl == calc_service_level(arg.t_intensity, agents, wp.val,
                                    arg.target_answer_time, arg.aht)
       IN  IF wp.status # "ok"
           THEN ret' = Raise(wp.status) /\ UNCHANGED <<i, evaluated>>
           ELSE /\ evaluated' = Append(evaluated, [agents |-> agents, service_level |-> sl])
                /\ IF MeetsTarget(sl, arg.target_service_level)
                   THEN ret' = Ok("pair", <<LowerBound(i), agents>>) /\ i' = i
                   ELSE ret' = ret /\ i' = i + 1
    /\ UNCHANGED <<fn, arg>>

\* the range is exhausted: return 0, 0
FindExhausted ==
    /\ fn = "__find_min_max_agents"
    /\ ret.status = "running"
    /\ i >= LastExponent
    /\ ret' = Exhausted
    /\ UNCHANGED <<fn, arg, i, evaluated>>

\* the caller takes the outcome
Return ==
    /\ fn # "idle"
    /\ ret.status # "running"
    /\ fn' = "idle"
    /\ arg' = [calls_per_hour |-> None]
    /\ ret' = Idle
    /\ i' = 0
    /\ evaluated' = <<>>

Next ==
    \/ CallWaitProbability
    \/ CallOptimiseOccupancy
    \/ CallAddShrinkage
    \/ CallCalcAll
    \/ CallCalcStaffing
    \/ FindStart
    \/ FindStep
    \/ FindExhausted
    \/ Return

Spec == Init /\ [][Next]_vars

\* the caller of the formulas alone: calc_wait_probability,
\* optimise_occupancy and add_shrinkage
NextEngine ==
    \/ CallWaitProbability
    \/ CallOptimiseOccupancy
    \/ CallAddShrinkage
    \/ Return

SpecEngine == Init /\ [][NextEngine]_vars

(***************************************************************************)
(* Reference definitions the properties are stated with.                   *)
(***************************************************************************)
RECURSIVE Factorial(_)
Factorial(n) == IF n = 0 THEN 1 ELSE n * Factorial(n - 1)

RECURSIVE RPow(_, _)
RPow(x, n) == IF n = 0 THEN R(1) ELSE RMul(x, RPow(x, n - 1))

\* A^k / k!
ErlangTerm(A, k) == RDiv(RPow(A, k), R(Factorial(k)))

RECURSIVE ErlangSum(_, _)
\* sum of A^k / k! for k = 0 .. n
ErlangSum(A, n) ==
    IF n < 0 THEN R(0) ELSE RAdd(ErlangSum(A, n - 1), ErlangTerm(A, n))

\* the textbook Erlang C formula for N agents and traffic A, N > A > 0
ErlangC(A, N) ==
    LET top == RMul(ErlangTerm(A, N), RDiv(R(N), RSub(R(N), A)))
    IN  RDiv(top, RAdd(ErlangSum(A, N - 1), top))

\* the service level the formulas give at n agents for the arguments of a
\* staffing call
ServiceLevelAt(a, n) ==
    LET t == calc_traffic_intensity(a.calls_per_hour, a.aht, a.time_unit)
        wp == calc_wait_probability(t, R(n))
    IN  calc_service_level(t, R(n), wp.val, a.target_answer_time, a.aht)

InOpenUnit(x) == RLt(R(0), x) /\ RLt(x, R(1))

(***************************************************************************)
(* C1: calc_staffing called without an agent count and without an          *)
(* occupancy ceiling, on valid inputs, returns a record whose agents field *)
(* is the smallest positive integer whose service level is at least the    *)
(* target.                                                                 *)
(***************************************************************************)
C1_ReturnsSmallestAgents ==
    (/\ fn = "calc_staffing"
     /\ IsNone(arg.agents)
     /\ IsNone(arg.target_occupancy)
     /\ InOpenUnit(arg.target_service_level))
    => /\ ret.status = "ok"
       /\ ret.kind = "data"
       /\ ret.val.agents >= 1
       /\ RLe(arg.target_service_level, ServiceLevelAt(arg, ret.val.agents))
       /\ \A m \in 1..(ret.val.agents - 1) :
            RLt(ServiceLevelAt(arg, m), arg.target_service_level)

(***************************************************************************)
(* C2: calc_staffing called with an agent count returns a record with      *)
(* that count and with every metric equal to the formula evaluated at      *)
(* exactly that count.                                                     *)
(***************************************************************************)
C2_EvaluatesAtGivenAgents ==
    (fn = "calc_staffing" /\ ~IsNone(arg.agents))
    => LET a == arg.agents
           t == calc_traffic_intensity(arg.calls_per_hour, arg.aht, arg.time_unit)
           wp == calc_wait_probability(t, a).val
       IN  /\ ret.status = "ok"
           /\ ret.kind = "data"
           /\ ret.val.agents = a[1]
           /\ ret.val.traffic_intensity = t
           /\ ret.val.wait_probability = wp
           /\ ret.val.immediate_answer = RSub(R(1), wp)
           /\ ret.val.service_level =
                calc_service_level(t, a, wp, arg.target_answer_time, arg.aht)
           /\ ret.val.average_speed_of_answer =
                calc_average_speed_of_answer(t, a, wp, arg.aht).val
           /\ ret.val.occupancy = calc_occupancy(t, a)
           /\ R(ret.val.agents_with_shrinkage) = add_shrinkage(a[1], arg.shrinkage).val

(***************************************************************************)
(* C3: calc_wait_probability(t, a) never fails for t >= 0 and a >= 0: it   *)
(* returns exactly 1 when a <= t and a value of [0, 1] when a > t.         *)
(***************************************************************************)
C3_WaitProbabilityTotal ==
    fn = "calc_wait_probability"
    => /\ ret.status = "ok"
       /\ RLe(R(0), ret.val) /\ RLe(ret.val, R(1))
       /\ (RLe(R(arg.agents), arg.t_intensity) => ret.val = R(1))

(***************************************************************************)
(* C4: for traffic A > 0 and N > A agents the iterative recurrence of      *)
(* calc_wait_probability returns exactly the textbook Erlang C value.      *)
(***************************************************************************)
C4_RecurrenceIsErlangC ==
    (/\ fn = "calc_wait_probability"
     /\ RLt(R(0), arg.t_intensity)
     /\ RLt(arg.t_intensity, R(arg.agents)))
    => ret = Ok("number", ErlangC(arg.t_intensity, arg.agents))

\* a call in the stable regime with a fractional traffic intensity, whose
\* result is strictly between 0 and 1
C4_Witness ==
    /\ fn = "calc_wait_probability"
    /\ arg.t_intensity = <<5, 2>>
    /\ arg.agents = 4
    /\ ret.status = "ok"
    /\ InOpenUnit(ret.val)

(***************************************************************************)
(* C5: when the search runs through its whole exponent range and no agent  *)
(* count it evaluated meets the target, it ends in a NoSolution error: it  *)
(* returns no bracket.  Stated for the target service level 1.0, the case  *)
(* the claim names, which no agent count meets whatever the range.         *)
(***************************************************************************)
C5_ExhaustedSearchRaises ==
    (/\ fn = "__find_min_max_agents"
     /\ arg.target_service_level = R(1)
     /\ ret.status # "running"
     /\ i >= LastExponent
     /\ \A k \in 1..Len(evaluated) :
          RLt(evaluated[k].service_level, arg.target_service_level))
    => ret.status = "NoSolution" /\ ret.kind # "pair"

(***************************************************************************)
(* C6: with calls_per_hour = 0 and a target service level in (0, 1) the    *)
(* minimising search completes without error and yields 0 agents with      *)
(* service level 1.                                                        *)
(***************************************************************************)
C6_ZeroCallsZeroAgents ==
    (/\ fn = "__find_min_max_agents"
     /\ arg.calls_per_hour = R(0)
     /\ InOpenUnit(arg.target_service_level)
     /\ ret.status # "running")
    => ret.status = "ok" /\ ret.kind = "pair" /\ ret.val = <<R(0), R(0)>>

(***************************************************************************)
(* C7: __calc_all with agents >= 1 and aht > 0 stores an average speed of  *)
(* answer >= 0 and raises no division by zero, the saturated regime        *)
(* agents <= traffic intensity included.  Stated for a traffic intensity   *)
(* > 0 and a shrinkage in [0, 1), where the only division that can fail is *)
(* the one of calc_average_speed_of_answer.                                *)
(***************************************************************************)
C7_SpeedOfAnswerNotNegative ==
    (/\ fn = "__calc_all"
     /\ arg.calls_per_hour[1] > 0
     /\ ~IsNone(arg.shrinkage))
    => /\ ret.status # "ZeroDivisionError"
       /\ ret.kind = "data" => RLe(R(0), ret.val.average_speed_of_answer)

(***************************************************************************)
(* C8: optimise_occupancy(t, a, c) returns (a', occ) with a' >= a,         *)
(* occ = min(1, t / a') <= c, and a' the smallest integer >= a whose       *)
(* occupancy is <= c: a when the occupancy at a is <= c, else ceil(t / c). *)
(***************************************************************************)
C8_OptimiseOccupancy ==
    fn = "optimise_occupancy"
    => LET t == arg.t_intensity
           a == arg.agents
           c == arg.occupancy_target
           a2 == ret.val[1]
           occ == ret.val[2]
           \* min(1, t / n) <= c, by cross-multiplication
           Within(n) == RLe(R(1), c) \/ RLe(t, RMul(c, R(n)))
       IN  /\ ret.status = "ok"
           /\ a2 >= a
           /\ IF RLe(t, R(a2)) THEN RMul(occ, R(a2)) = t ELSE occ = R(1)
           /\ RLe(occ, c)
           /\ Within(a2)
           /\ \A b \in a..(a2 - 1) : ~Within(b)
           /\ Within(a) => a2 = a
           /\ ~Within(a) => RLe(t, RMul(c, R(a2))) /\ RLt(RMul(c, R(a2 - 1)), t)

\* a call whose agent count is raised, to a count that is no multiple of the
\* traffic intensity
C8_Witness ==
    /\ fn = "optimise_occupancy"
    /\ ret.val[1] > arg.agents
    /\ RLt(ret.val[2], arg.occupancy_target)

(***************************************************************************)
(* C9: add_shrinkage with an agent count >= 1 and a shrinkage >= 1 fails   *)
(* and returns no agent count (any exception is taken for the failure).    *)
(***************************************************************************)
C9_ShrinkageAtLeastOneFails ==
    (fn = "add_shrinkage" /\ ~IsNone(arg.shrinkage) /\ RLe(R(1), arg.shrinkage))
    => ret.status # "ok"

(***************************************************************************)
(* C10: for a traffic intensity t > 0 and an agent count a >= 1,           *)
(* calc_wait_probability(t, a + 1) <= calc_wait_probability(t, a).         *)
(***************************************************************************)
C10_WaitProbabilityNonIncreasing ==
    (/\ fn = "calc_wait_probability"
     /\ RLt(R(0), arg.t_intensity)
     /\ arg.agents >= 1)
    => LET next == calc_wait_probability(arg.t_intensity, R(arg.agents + 1))
       IN  /\ ret.status = "ok"
           /\ next.status = "ok"
           /\ RLe(next.val, ret.val)

\* a call at the last saturated agent count: the value is 1 and the value at
\* one more agent is strictly less
C10_Witness ==
    /\ fn = "calc_wait_probability"
    /\ arg.t_intensity = <<5, 2>>
    /\ arg.agents = 2
    /\ ret = Ok("number", R(1))
    /\ RLt(calc_wait_probability(arg.t_intensity, R(arg.agents + 1)).val, ret.val)

(***************************************************************************)
(* C11: a bracket (lo, hi) returned by __find_min_max_agents from its loop *)
(* for a traffic intensity > 0 and a target service level in (0, 1).       *)
(***************************************************************************)
\* the search has returned a bracket from inside its loop
BracketReturned ==
    /\ fn = "__find_min_max_agents"
    /\ ret.status = "ok"
    /\ i < LastExponent
    /\ RLt(R(0), arg.t_intensity)
    /\ InOpenUnit(arg.target_service_level)

\* hi = 2^i is the first agent count of the doubling sequence from exponent
\* int(log2(t)) whose service level exceeds the target: the steps evaluated
\* are exactly that sequence, each with the service level of the formulas,
\* and every step before hi does not exceed the target
FirstExceeding ==
    LET start == IntLog2(arg.t_intensity)
        n == Len(evaluated)
    IN  /\ n >= 1
        /\ i = start + n - 1
        /\ ret.val[2] = Pow2(i)
        /\ IsInt(ret.val[2])
        /\ \A k \in 1..n :
             /\ evaluated[k].agents = Pow2(start + k - 1)
             /\ IsInt(evaluated[k].agents) =>
                  evaluated[k].service_level = ServiceLevelAt(arg, evaluated[k].agents[1])
             /\ ~IsInt(evaluated[k].agents) => evaluated[k].service_level = R(0)
             /\ k < n => RLe(evaluated[k].service_level, arg.target_service_level)
        /\ RLt(arg.target_service_level, evaluated[n].service_level)

====
